---- MODULE Spec2Model ----
(***************************************************************************)
(* SchNet representation (schnetpack/representation/schnet.py).            *)
(*                                                                         *)
(* State: the SchNet objects that exist, the heap of SchNetInteraction     *)
(* instances they reference, the forward call in flight and the value the  *)
(* last forward call of each object returned.                              *)
(*                                                                         *)
(* Tensors are modelled for one structure with one atom: a feature tensor  *)
(* of shape (1, 1, W) is the sequence of its W components (integers), so   *)
(* that torch.cat is \o, the last dimension is Len and x + v is the        *)
(* componentwise sum.  A position tensor is the pair of coordinates of the *)
(* atom and of its neighbour.  Optional Python values (None or a value)    *)
(* are sequences of length 0 or 1.                                         *)
(***************************************************************************)
EXTENDS Integers, Sequences, FiniteSets, TLC

\* ---------------------------------------------------------------- bounds
MaxF == 3
MaxN == 2
MaxZ == 2
MaxFilter == 2
MaxQ == 2
\* width of inputs['props'] read by Dense(8, ..)
NProps == 8

ModelIds == {1, 2}
Widths == 1..MaxF
Counts == 0..MaxN
FilterWidths == 1..MaxFilter
SelectFets == {<<>>, <<0>>}
PosSet == {<<0, 1>>, <<0, 2>>}
PropsSet == {[k \in 1..NProps |-> k], [k \in 1..NProps |-> IF k = 1 THEN 2 ELSE 0]}
\* a negative atomic number, the padding 0, the largest valid one, max_z itself
ZSet == {0 - 1, 0, MaxZ - 1, MaxZ}
ChargeSet == {<<>>, <<MaxQ>>}
WeightSet == 1..2

\* ---------------------------------------------------------- tensor helpers
RECURSIVE Sum(_)
Sum(v) == IF v = <<>> THEN 0 ELSE Head(v) + Sum(Tail(v))

Add(x, v) == [k \in 1..Len(x) |-> x[k] + v[k]]

Abs(n) == IF n < 0 THEN 0 - n ELSE n

Ok(v) == [ok |-> TRUE, val |-> v, err |-> ""]
Raise(e) == [ok |-> FALSE, val |-> <<>>, err |-> e]

\* ------------------------------------------------------------------ layers
\* schnetpack.nn.base.Dense(n_in, n_out): an affine layer
Dense(n_in, n_out, w) == [in |-> n_in, out |-> n_out, w |-> w]

DenseApply(layer, v) ==
    IF Len(v) # layer.in THEN Raise("ShapeError")
    ELSE Ok([k \in 1..layer.out |-> layer.w * Sum(v) + k])

\* torch.nn.Embedding(num_embeddings, embedding_dim, padding_idx=0)
Embedding(num, dim, w) == [num |-> num, dim |-> dim, w |-> w]

EmbeddingApply(table, z) ==
    IF z < 0 \/ z >= table.num THEN Raise("IndexError")
    ELSE Ok([k \in 1..table.dim |-> IF z = 0 THEN 0 ELSE table.w * z + k])

\* schnetpack.nn.neighbors.AtomDistances: distance of the atom to its neighbour
Distances(positions) == Abs(positions[2] - positions[1])

\* schnetpack.nn.acsf.GaussianSmearing: a function of the distance alone
DistanceExpansion(r_ij) == r_ij * r_ij + 1

\* schnetpack.nn.cfconv.CFConv(n_in, n_filters, n_out, ..): in2f is
\* Dense(n_in, n_filters), f2out is Dense(n_filters, n_out)
CFConvApply(block, x, r_ij, f_ij) ==
    IF Len(x) # block.n_atom_basis THEN Raise("ShapeError")
    ELSE Ok([k \in 1..block.n_atom_basis |-> block.w * Sum(x) * f_ij + r_ij])

\* ------------------------------------------------------- SchNetInteraction
\* SchNetInteraction.__init__: a new instance with parameters of its own (their
\* initial values differ from those of every other instance)
NewInteraction(id, n_atom_basis, n_filters) ==
    [n_atom_basis |-> n_atom_basis, n_filters |-> n_filters, w |-> id,
     dense |-> Dense(n_atom_basis, n_atom_basis, 1)]

\* SchNetInteraction.forward
InteractionForward(block, x, r_ij, f_ij) ==
    LET v == CFConvApply(block, x, r_ij, f_ij)
    IN  IF ~v.ok THEN v ELSE DenseApply(block.dense, v.val)

\* ------------------------------------------------------------ SchNet state
VARIABLES models, blocks, call, ret

vars == <<models, blocks, call, ret>>

\* n_filters is an int or a list of ints
ScalarArg(n) == [list |-> FALSE, widths |-> <<n>>]
ListArg(s) == [list |-> TRUE, widths |-> s]

AllLists == UNION {[1..L -> FilterWidths] : L \in 0..(MaxN + 1)}
ScalarArgs == {ScalarArg(n) : n \in FilterWidths}
OneScalarArg == {ScalarArg(MaxFilter)}
ListArgs == {ListArg(s) : s \in AllLists}
\* the list [1, 2, ..] of MaxN widths, cycling through FilterWidths
RampList == [i \in 1..MaxN |-> ((i - 1) % MaxFilter) + 1]
OneListArg == {ListArg(RampList)}

CtorArgs(filterArgs) ==
    [n_atom_basis : Widths, n_filters : filterArgs, n_interactions : Counts,
     coupled_interactions : BOOLEAN, return_intermediate : BOOLEAN,
     max_z : {MaxZ}, charged_systems : BOOLEAN, use_noise : BOOLEAN,
     chargeEmbedding : BOOLEAN, selectFet : SelectFets]

NoArgs ==
    [n_atom_basis |-> 0, n_filters |-> ScalarArg(0), n_interactions |-> 0,
     coupled_interactions |-> FALSE, return_intermediate |-> FALSE,
     max_z |-> 0, charged_systems |-> FALSE, use_noise |-> FALSE,
     chargeEmbedding |-> FALSE, selectFet |-> <<>>]

NoModel ==
    [status |-> "absent", args |-> NoArgs, chargeEmbedding |-> FALSE,
     n_atom_basis |-> 0, selectFet |-> <<>>, embedding |-> <<>>,
     dense |-> Dense(0, 0, 0), interactions |-> <<>>, use_noise |-> FALSE,
     return_intermediate |-> FALSE, charged_systems |-> FALSE,
     charge |-> <<>>, newpos |-> <<0, 0>>]

\* a constructor call that raised: no object exists
FailedModel(args, e) == [NoModel EXCEPT !.status = e, !.args = args]

\* int(n_atom_basis / 2)
Half(n_atom_basis) == n_atom_basis \div 2

\* SchNet.__init__, the feature initializer's layers
MakeInitializer(chargeEmbedding, selectFet, n_atom_basis, max_z) ==
    IF chargeEmbedding /\ selectFet = <<>>
    THEN [embedding |-> <<Embedding(max_z, Half(n_atom_basis), 1)>>,
          dense |-> Dense(NProps, Half(n_atom_basis), 1)]
    ELSE IF ~chargeEmbedding /\ selectFet = <<>>
    THEN [embedding |-> <<>>, dense |-> Dense(NProps, n_atom_basis, 1)]
    ELSE IF chargeEmbedding /\ selectFet # <<>>
    THEN [embedding |-> <<Embedding(max_z, Half(n_atom_basis), 1)>>,
          dense |-> Dense(1, Half(n_atom_basis), 1)]
    ELSE [embedding |-> <<>>, dense |-> Dense(1, n_atom_basis, 1)]

\* mutant: the independent branch repeats one instance, as the coupled one does
BuildInteractionsAliased(args, base) ==
    LET N == args.n_interactions
        F == args.n_atom_basis
        nf == args.n_filters
    IN  IF nf.list
        THEN IF N > Len(nf.widths)
             THEN [ok |-> FALSE, new |-> <<>>, ids |-> <<>>]
             ELSE [ok |-> TRUE,
                   new |-> [i \in 1..N |-> NewInteraction(base + i, F, nf.widths[i])],
                   ids |-> [i \in 1..N |-> base + i]]
        ELSE [ok |-> TRUE,
              new |-> <<NewInteraction(base + 1, F, nf.widths[1])>>,
              ids |-> [i \in 1..N |-> base + 1]]

\* mutant: coupled_interactions is tested before the list
BuildInteractionsCoupledFirst(args, base) ==
    LET N == args.n_interactions
        F == args.n_atom_basis
        nf == args.n_filters
    IN  IF args.coupled_interactions
        THEN [ok |-> TRUE,
              new |-> <<NewInteraction(base + 1, F,
                            IF nf.widths = <<>> THEN 0 ELSE nf.widths[1])>>,
              ids |-> [i \in 1..N |-> base + 1]]
        ELSE IF nf.list
        THEN IF N > Len(nf.widths)
             THEN [ok |-> FALSE, new |-> <<>>, ids |-> <<>>]
             ELSE [ok |-> TRUE,
                   new |-> [i \in 1..N |-> NewInteraction(base + i, F, nf.widths[i])],
                   ids |-> [i \in 1..N |-> base + i]]
        ELSE [ok |-> TRUE,
              new |-> [i \in 1..N |-> NewInteraction(base + i, F, nf.widths[1])],
              ids |-> [i \in 1..N |-> base + i]]

\* SchNet.__init__, the interaction list: the instances it allocates (new, put on
\* the heap after the base instances that exist) and the list's references (ids)
BuildInteractions(args, base) ==
    LET N == args.n_interactions
        F == args.n_atom_basis
        nf == args.n_filters
    IN  IF nf.list
        THEN IF N > Len(nf.widths)
             THEN [ok |-> FALSE, new |-> <<>>, ids |-> <<>>]
             ELSE [ok |-> TRUE,
                   new |-> [i \in 1..N |-> NewInteraction(base + i, F, nf.widths[i])],
                   ids |-> [i \in 1..N |-> base + i]]
        ELSE IF args.coupled_interactions
        THEN [ok |-> TRUE,
              new |-> <<NewInteraction(base + 1, F, nf.widths[1])>>,
              ids |-> [i \in 1..N |-> base + 1]]
        ELSE [ok |-> TRUE,
              new |-> [i \in 1..N |-> NewInteraction(base + i, F, nf.widths[1])],
              ids |-> [i \in 1..N |-> base + i]]

\* SchNet.__init__: the object it returns (newpos is torch.rand)
NewSchNet(args, ids, newpos) ==
    LET ini == MakeInitializer(args.chargeEmbedding, args.selectFet,
                               args.n_atom_basis, args.max_z)
    IN  [status |-> "built", args |-> args,
         chargeEmbedding |-> args.chargeEmbedding,
         n_atom_basis |-> args.n_atom_basis,
         selectFet |-> args.selectFet,
         embedding |-> ini.embedding,
         dense |-> ini.dense,
         interactions |-> ids,
         use_noise |-> args.use_noise,
         return_intermediate |-> args.return_intermediate,
         charged_systems |-> args.charged_systems,
         charge |-> IF args.charged_systems THEN <<1>> ELSE <<>>,
         newpos |-> newpos]

NoInputs == [Z |-> 0, R |-> <<0, 0>>, props |-> <<>>, charge |-> <<>>]

Idle ==
    [pc |-> "idle", m |-> 1,
     inputs |-> NoInputs,
     positions |-> <<0, 0>>, x |-> <<>>, xinit |-> <<>>, x0 |-> <<>>,
     r_ij |-> 0, f_ij |-> 0, hasXs |-> FALSE, xs |-> <<>>, i |-> 0,
     err |-> "", hist |-> <<>>]

\* what the last forward call of an object returned (inputs: the batch it was given)
NoRet ==
    [done |-> FALSE, final |-> <<>>, hasList |-> FALSE, xs |-> <<>>,
     inputs |-> NoInputs]

Init ==
    /\ models = [m \in ModelIds |-> NoModel]
    /\ blocks = <<>>
    /\ call = Idle
    /\ ret = [m \in ModelIds |-> NoRet]

\* SchNet(...) called with args for slot m
Construct(m, args) ==
    /\ models[m].status = "absent"
    /\ call.pc = "idle"
    /\ LET b == BuildInteractions(args, Len(blocks))
       IN  IF ~b.ok
           THEN /\ models' = [models EXCEPT ![m] = FailedModel(args, "IndexError")]
                /\ UNCHANGED blocks
           ELSE /\ \E newpos \in PosSet :
                      models' = [models EXCEPT ![m] = NewSchNet(args, b.ids, newpos)]
                /\ blocks' = blocks \o b.new
    /\ UNCHANGED <<call, ret>>

Inputs == [Z : ZSet, R : PosSet, props : PropsSet, charge : ChargeSet]

\* ---------------------------------------------------------- SchNet.forward
Self == models[call.m]

\* forward(inputs) is entered: the tensors read from the input dictionary;
\* positions is self.newpos.  The print calls, the unused ligand_indicator and
\* the unused noise tensor change no state and are left out.
ReadPositions(model, inputs) == model.newpos

ForwardCall(m, inputs) ==
    /\ models[m].status = "built"
    /\ call.pc \in {"idle", "returned", "raised"}
    /\ call' = [Idle EXCEPT !.pc = "features", !.m = m, !.inputs = inputs,
                            !.positions = ReadPositions(models[m], inputs)]
    /\ ret' = [ret EXCEPT ![m] = NoRet]
    /\ UNCHANGED <<models, blocks>>

\* props = inputs['props'][:, :, selectFet:selectFet + 1], or all of inputs['props']
SelectProps(model, inputs) ==
    IF model.selectFet # <<>>
    THEN SubSeq(inputs.props, model.selectFet[1] + 1, model.selectFet[1] + 1)
    ELSE inputs.props

\* the initial features x
InitialFeatures(model, inputs) ==
    LET props == SelectProps(model, inputs)
        p == DenseApply(model.dense, props)
    IN  IF model.chargeEmbedding
        THEN IF ~p.ok THEN p
             ELSE LET e == EmbeddingApply(model.embedding[1], inputs.Z)
                  IN  IF ~e.ok THEN e ELSE Ok(p.val \o e.val)
        ELSE p

InitFeatures ==
    /\ call.pc = "features"
    /\ LET r == InitialFeatures(Self, call.inputs)
       IN  call' = IF r.ok
                   THEN [call EXCEPT !.pc = "charge", !.x = r.val, !.xinit = r.val]
                   ELSE [call EXCEPT !.pc = "raised", !.err = r.err]
    /\ UNCHANGED <<models, blocks, ret>>

\* if False and self.charged_systems and Properties.charge in inputs.keys()
ChargeBranch(model, inputs) ==
    FALSE /\ model.charged_systems /\ inputs.charge # <<>>

\* charge / n_atoms * self.charge, for the structure's one atom
ChargeTerm(model, inputs, width) ==
    [k \in 1..width |-> inputs.charge[1] * model.charge[1]]

AddCharge ==
    /\ call.pc = "charge"
    /\ LET x == IF ChargeBranch(Self, call.inputs)
                THEN Add(call.x, ChargeTerm(Self, call.inputs, Len(call.x)))
                ELSE call.x
       IN  call' = [call EXCEPT !.pc = "distances", !.x = x, !.x0 = x]
    /\ UNCHANGED <<models, blocks, ret>>

\* if self.use_noise: positions  # + noise
NoisyPositions(model, positions) == positions

\* r_ij, f_ij and xs = [x]
ComputeDistances ==
    /\ call.pc = "distances"
    /\ LET positions == NoisyPositions(Self, call.positions)
           r_ij == Distances(positions)
       IN  call' = [call EXCEPT !.pc = "loop", !.i = 1,
                                !.r_ij = r_ij,
                                !.f_ij = DistanceExpansion(r_ij),
                                !.hasXs = Self.return_intermediate,
                                !.xs = IF Self.return_intermediate
                                       THEN <<call.x>> ELSE <<>>]
    /\ UNCHANGED <<models, blocks, ret>>

\* mutant: every block is applied to the features the loop started from
StepInputStale(c) == c.x0

\* the tensor handed to the block of step i
StepInput(c) == c.x

\* the block of step i: the i-th entry of self.interactions
StepBlock(model, i) == model.interactions[i]

\* mutant: the running features are never appended
RecordNever(model, xs, x) == xs

\* xs.append(x)
Record(model, xs, x) == IF model.return_intermediate THEN Append(xs, x) ELSE xs

\* one turn of: for interaction in self.interactions
InteractionStep ==
    /\ call.pc = "loop"
    /\ call.i <= Len(Self.interactions)
    /\ LET id == StepBlock(Self, call.i)
           xin == StepInput(call)
           v == InteractionForward(blocks[id], xin, call.r_ij, call.f_ij)
       IN  IF ~v.ok
           THEN call' = [call EXCEPT !.pc = "raised", !.err = v.err]
           ELSE LET x == Add(call.x, v.val)
                IN  call' = [call EXCEPT
                                !.x = x,
                                !.xs = Record(Self, call.xs, x),
                                !.i = call.i + 1,
                                !.hist = Append(call.hist,
                                    [blk |-> id, xin |-> xin, xout |-> x])]
    /\ UNCHANGED <<models, blocks, ret>>

\* return x, xs   or   return x
ReturnValue(model, c) ==
    IF model.return_intermediate
    THEN [done |-> TRUE, final |-> c.x, hasList |-> TRUE, xs |-> c.xs,
          inputs |-> c.inputs]
    ELSE [done |-> TRUE, final |-> c.x, hasList |-> FALSE, xs |-> <<>>,
          inputs |-> c.inputs]

Return ==
    /\ call.pc = "loop"
    /\ call.i > Len(Self.interactions)
    /\ call' = [call EXCEPT !.pc = "returned"]
    /\ ret' = [ret EXCEPT ![call.m] = ReturnValue(Self, call)]
    /\ UNCHANGED <<models, blocks>>

\* the caller is done with the call's outcome (the value, or the exception)
Reuse ==
    /\ call.pc \in {"returned", "raised"}
    /\ call' = Idle
    /\ ret' = [ret EXCEPT ![call.m] = NoRet]
    /\ UNCHANGED <<models, blocks>>

\* the objects are dropped
Discard ==
    /\ call.pc \in {"idle", "returned", "raised"}
    /\ models # [m \in ModelIds |-> NoModel]
    /\ models' = [m \in ModelIds |-> NoModel]
    /\ blocks' = <<>>
    /\ call' = Idle
    /\ ret' = [m \in ModelIds |-> NoRet]

Step == InitFeatures \/ AddCharge \/ ComputeDistances \/ InteractionStep \/ Return

\* ---------------------------------------------------------- specifications
\* one object: constructed, called, dropped
NewObject ==
    /\ models[1].status = "absent"
    /\ \E args \in CtorArgs(OneScalarArg \cup OneListArg) : Construct(1, args)

CallForward ==
    /\ call.pc = "idle"
    /\ models[1].status = "built"
    /\ \E inputs \in Inputs : ForwardCall(1, inputs)

Next == NewObject \/ CallForward \/ Step \/ Reuse \/ Discard

Spec == Init /\ [][Next]_vars

\* construction alone, over every n_filters argument
NewObjectAny ==
    /\ models[1].status = "absent"
    /\ \E args \in CtorArgs(ScalarArgs \cup ListArgs) : Construct(1, args)

NextCtor == NewObjectAny \/ Discard

SpecCtor == Init /\ [][NextCtor]_vars

\* two objects of one configuration, the first coupled and the second with
\* independent blocks, given the same weights and called on the same batch
EqArgs ==
    {a \in CtorArgs(OneScalarArg) :
        /\ a.coupled_interactions
        /\ a.n_interactions >= 1
        /\ ~a.charged_systems
        /\ ~a.use_noise}

EqCoupled ==
    /\ models[1].status = "absent"
    /\ \E args \in EqArgs : Construct(1, args)

EqIndependent ==
    /\ models[1].status = "built"
    /\ Construct(2, [models[1].args EXCEPT !.coupled_interactions = FALSE])

SetLayer(layers, w) == [k \in DOMAIN layers |-> [layers[k] EXCEPT !.w = w]]

SameWeights ==
    /\ models[1].status = "built"
    /\ models[2].status = "built"
    /\ models[1].dense = models[2].dense
    /\ models[1].embedding = models[2].embedding
    /\ Len(models[1].interactions) = Len(models[2].interactions)
    /\ \A i \in 1..Len(models[1].interactions) :
          /\ blocks[models[1].interactions[i]].w = blocks[models[2].interactions[i]].w
          /\ blocks[models[1].interactions[i]].dense
                = blocks[models[2].interactions[i]].dense

\* every parameter of both objects is set to the same values
LoadWeights(w) ==
    /\ models[1].status = "built"
    /\ models[2].status = "built"
    /\ call.pc = "idle"
    /\ ~SameWeights
    /\ blocks' = SetLayer(blocks, w)
    /\ models' = [m \in ModelIds |->
                    [models[m] EXCEPT !.dense.w = w,
                                      !.embedding = SetLayer(models[m].embedding, w)]]
    /\ UNCHANGED <<call, ret>>

EqLoadWeights == \E w \in WeightSet : LoadWeights(w)

EqForwardFirst ==
    /\ SameWeights
    /\ call.pc = "idle"
    /\ \E inputs \in Inputs : ForwardCall(1, inputs)

EqForwardSecond ==
    /\ call.pc \in {"returned", "raised"}
    /\ call.m = 1
    /\ ForwardCall(2, call.inputs)

NextEquiv ==
    \/ EqCoupled
    \/ EqIndependent
    \/ EqLoadWeights
    \/ EqForwardFirst
    \/ EqForwardSecond
    \/ Step
    \/ Discard

SpecEquiv == Init /\ [][NextEquiv]_vars

\* ------------------------------------------------------------------ claims
Entered == call.pc \in {"charge", "distances", "loop", "returned"}
InLoop == call.pc \in {"loop", "returned"}
Pairwise(ids) == \A i, j \in 1..Len(ids) : i # j => ids[i] # ids[j]
AllSame(ids) == \A i, j \in 1..Len(ids) : ids[i] = ids[j]
ValidZ(z, max_z) == 0 <= z /\ z < max_z

\* C1: the loop of forward follows x_i = x_{i-1} + block_i(x_{i-1}, r_ij, f_ij):
\* the i-th step applies the i-th entry of self.interactions to the features the
\* step before produced (the first to the features entering the loop), every
\* block is applied once, in list order, and the returned tensor is x_N.
C1_ResidualRecurrence ==
    InLoop =>
        /\ Len(call.hist) = call.i - 1
        /\ \A i \in 1..Len(call.hist) :
              LET h == call.hist[i]
                  xprev == IF i = 1 THEN call.x0 ELSE call.hist[i - 1].xout
                  v == InteractionForward(blocks[Self.interactions[i]], xprev,
                                          call.r_ij, call.f_ij)
              IN  /\ h.blk = Self.interactions[i]
                  /\ h.xin = xprev
                  /\ v.ok
                  /\ h.xout = Add(xprev, v.val)
        /\ call.x = IF call.hist = <<>> THEN call.x0
                    ELSE call.hist[Len(call.hist)].xout
        /\ call.pc = "returned" =>
              /\ Len(call.hist) = Len(Self.interactions)
              /\ ret[call.m].done
              /\ ret[call.m].final = call.x

\* a call returned after two blocks or more changed the features
C1_Witness ==
    /\ call.pc = "returned"
    /\ Len(call.hist) >= 2
    /\ call.hist[1].xout # call.x0
    /\ call.hist[2].xout # call.hist[1].xout

\* C2: with return_intermediate the call returns (final, xs), xs holding the
\* N + 1 tensors x_0, x_1, .., x_N for N = n_interactions, the last of them the
\* final tensor; without it only the final tensor is returned and no list is built.
C2_Intermediates ==
    /\ (call.pc # "idle" /\ ~Self.return_intermediate) =>
          /\ call.xs = <<>>
          /\ ~call.hasXs
    /\ call.pc = "returned" =>
          LET r == ret[call.m]
              N == Self.args.n_interactions
          IN  IF Self.return_intermediate
              THEN /\ r.hasList
                   /\ Len(r.xs) = N + 1
                   /\ r.xs[1] = call.x0
                   /\ \A i \in 1..N : r.xs[i + 1] = call.hist[i].xout
                   /\ r.xs[N + 1] = r.final
              ELSE /\ ~r.hasList
                   /\ r.xs = <<>>

\* a call with return_intermediate returned after two blocks or more
C2_Witness ==
    /\ call.pc = "returned"
    /\ Self.return_intermediate
    /\ Self.args.n_interactions >= 2
    /\ Len(ret[call.m].xs) = Self.args.n_interactions + 1

\* C3: a constructed SchNet holds exactly n_interactions interaction entries;
\* coupled with a scalar n_filters they are all one instance, uncoupled they are
\* pairwise distinct instances (each instance owns its parameters).
C3_InteractionList ==
    \A m \in ModelIds :
        models[m].status = "built" =>
            LET a == models[m].args
                ids == models[m].interactions
            IN  /\ Len(ids) = a.n_interactions
                /\ \A i \in 1..Len(ids) : ids[i] \in 1..Len(blocks)
                /\ (a.coupled_interactions /\ ~a.n_filters.list) => AllSame(ids)
                /\ ~a.coupled_interactions => Pairwise(ids)

\* a coupled object of two entries or more, all of them one instance
C3_Witness ==
    /\ models[1].status = "built"
    /\ models[1].args.coupled_interactions
    /\ ~models[1].args.n_filters.list
    /\ Len(models[1].interactions) >= 2
    /\ models[1].interactions[1] = models[1].interactions[2]

C4_SharingEquivalence ==
    (/\ SameWeights
     /\ call.pc = "returned"
     /\ call.m = 2
     /\ ret[1].done
     /\ ret[1].inputs = ret[2].inputs)
        => /\ ret[2].final = ret[1].final
           /\ ret[2].hasList = ret[1].hasList
           /\ ret[2].xs = ret[1].xs

\* C5: in every initialization mode and for every n_atom_basis the constructor
\* accepts, the initial features built by forward are n_atom_basis wide, and so
\* is the returned tensor.
C5_ShapeInvariance ==
    /\ Entered => Len(call.xinit) = Self.n_atom_basis
    /\ call.pc = "returned" => Len(ret[call.m].final) = Self.n_atom_basis

\* C6: the positions handed to the distance computation are the batch's positions
\* inputs[Properties.R], whatever use_noise is: r_ij is their distance.
C6_TruePositions ==
    /\ call.pc # "idle" => call.positions = call.inputs.R
    /\ InLoop => call.r_ij = Distances(call.inputs.R)

\* C7: no SchNet with combined initialization (chargeEmbedding) and an odd
\* n_atom_basis is ever constructed: such a construction fails.
C7_OddWidthRejected ==
    \A m \in ModelIds :
        (models[m].status # "absent"
            /\ models[m].args.chargeEmbedding
            /\ models[m].args.n_atom_basis % 2 = 1)
        => models[m].status # "built"

\* C8: with charged_systems configured and a charge in the batch, the charge term
\* is added to x once, between the initial features and the first block;
\* otherwise nothing is added.
C8_ChargeAdded ==
    call.pc \in {"distances", "loop", "returned"} =>
        call.x0 = IF Self.charged_systems /\ call.inputs.charge # <<>>
                  THEN Add(call.xinit,
                           ChargeTerm(Self, call.inputs, Len(call.xinit)))
                  ELSE call.xinit

\* C9: in every initialization mode a call on a batch holding an atomic number
\* that is negative or >= max_z fails and returns nothing.
C9_InvalidZFailsEveryMode ==
    (call.pc \notin {"idle", "features"}
        /\ ~ValidZ(call.inputs.Z, Self.args.max_z))
    => /\ call.pc = "raised"
       /\ ~ret[call.m].done

\* What the code does there: in the combined modes (chargeEmbedding) such a call
\* fails at the embedding lookup with an IndexError and returns nothing; in the
\* properties-only modes the atomic numbers are not read and no call fails.
CombinedModeRejectsInvalidZ ==
    /\ (call.pc \notin {"idle", "features"}
          /\ Self.chargeEmbedding
          /\ ~ValidZ(call.inputs.Z, Self.args.max_z))
       => /\ call.pc = "raised"
          /\ call.err = "IndexError"
          /\ call.hist = <<>>
          /\ ~ret[call.m].done
    /\ (call.pc # "idle" /\ ~Self.chargeEmbedding) => call.pc # "raised"
    /\ (call.pc = "raised" /\ call.err = "IndexError")
       => ~ValidZ(call.inputs.Z, Self.args.max_z)

====
